---------------------------- MODULE Spec2Model ----------------------------
(***************************************************************************)
(* Workspace preparation of the agent executor                            *)
(* (src/executor/app/core/workspace.py, class WorkspaceManager).          *)
(*                                                                         *)
(* Strings are TLA+ strings, read character by character with SubSeq.     *)
(* Filesystem paths are tuples of path components; the filesystem is a    *)
(* function from the paths that exist to their nodes.  The git subprocess *)
(* layer (app.utils.git.operations) is not part of the sources at hand:   *)
(* its operations are modelled from their documented interface, and their *)
(* success or failure is an input of each call.                           *)
(***************************************************************************)
EXTENDS Integers, Sequences, FiniteSets, TLC

VARIABLES
    fs,        \* the filesystem: [path -> node]
    self,      \* the WorkspaceManager instance's fields
    environ,   \* the process environment (WORKSPACE_GIT_IGNORE)
    last,      \* the last call: its operation, arguments, outcome, and the state before it
    nops       \* number of calls made so far

vars == <<fs, self, environ, last, nops>>

\* Python's None, where a string is expected.
None == "<None>"

-----------------------------------------------------------------------------
(* str methods *)

\* "x = v; F(x)": F applied to the value of v, computed once.
Then(v, F(_)) == CHOOSE y \in {F(x) : x \in {v}} : TRUE

Ch(s, i) == SubSeq(s, i, i)

\* The least of a non-empty set of numbers.
Least(S) == CHOOSE i \in S : \A j \in S : i <= j

\* s.find(c) + 1 for a one-character c: the first index of c in s, 0 if none.
Find(s, c) ==
    IF \E i \in 1..Len(s) : Ch(s, i) = c
    THEN CHOOSE i \in 1..Len(s) : Ch(s, i) = c /\ \A j \in 1..(i - 1) : Ch(s, j) # c
    ELSE 0

\* s.rfind(c) + 1
RFind(s, c) ==
    IF \E i \in 1..Len(s) : Ch(s, i) = c
    THEN CHOOSE i \in 1..Len(s) : Ch(s, i) = c /\ \A j \in (i + 1)..Len(s) : Ch(s, j) # c
    ELSE 0

\* s.split(c, 1)[0]
SplitFirst(s, c) == Then(Find(s, c), LAMBDA i : IF i = 0 THEN s ELSE SubSeq(s, 1, i - 1))

\* s.split(c)[-1]
SplitLast(s, c) == SubSeq(s, RFind(s, c) + 1, Len(s))

\* s.rstrip(c) for a one-character c
RStripCh(s, c) ==
    IF \A i \in 1..Len(s) : Ch(s, i) = c THEN ""
    ELSE SubSeq(s, 1, CHOOSE i \in 1..Len(s) :
                        Ch(s, i) # c /\ \A j \in (i + 1)..Len(s) : Ch(s, j) = c)

EndsWith(s, suf) ==
    Len(suf) <= Len(s) /\ SubSeq(s, Len(s) - Len(suf) + 1, Len(s)) = suf

StartsWith(s, pre) == Len(pre) <= Len(s) /\ SubSeq(s, 1, Len(pre)) = pre

Whitespace == {" ", "\t", "\n", "\r", "\f"}

\* s.strip()
Strip(s) ==
    IF \A i \in 1..Len(s) : Ch(s, i) \in Whitespace THEN ""
    ELSE SubSeq(s,
                CHOOSE i \in 1..Len(s) :
                    Ch(s, i) \notin Whitespace /\ \A j \in 1..(i - 1) : Ch(s, j) \in Whitespace,
                CHOOSE i \in 1..Len(s) :
                    Ch(s, i) \notin Whitespace /\ \A j \in (i + 1)..Len(s) : Ch(s, j) \in Whitespace)

UpperAlpha == "ABCDEFGHIJKLMNOPQRSTUVWXYZ"
LowerAlpha == "abcdefghijklmnopqrstuvwxyz"
Digits == "0123456789"

\* The characters of s.
Chars(s) == {Ch(s, i) : i \in 1..Len(s)}

Upper == Chars(UpperAlpha)

LowerCh(c) == IF c \in Upper THEN Ch(LowerAlpha, Find(UpperAlpha, c)) ELSE c

RECURSIVE Lower(_)
\* s.lower()
Lower(s) == IF s = "" THEN "" ELSE LowerCh(Ch(s, 1)) \o Lower(Tail(s))

RECURSIVE Split(_, _)
\* s.split(c) for a one-character c, as a tuple of strings
Split(s, c) ==
    Then(Find(s, c), LAMBDA i :
      IF i = 0 THEN <<s>>
      ELSE <<SubSeq(s, 1, i - 1)>> \o Split(SubSeq(s, i + 1, Len(s)), c))

RECURSIVE ReplaceCh(_, _, _)
\* s.replace(a, b) for one-character a
ReplaceCh(s, a, b) ==
    Then(Find(s, a), LAMBDA i :
      IF i = 0 THEN s
      ELSE SubSeq(s, 1, i - 1) \o b \o ReplaceCh(SubSeq(s, i + 1, Len(s)), a, b))

\* bool(s) of an Optional[str]
Truthy(s) == s # None /\ s # ""

\* (s or "")
OrEmpty(s) == IF Truthy(s) THEN s ELSE ""

-----------------------------------------------------------------------------
(* urllib.parse.urlparse, as far as _build_git_env reads its result *)

Alpha == Chars(UpperAlpha) \cup Chars(LowerAlpha)
SchemeChars == Alpha \cup Chars(Digits) \cup {"+", "-", "."}

IsAlpha(c) == c \in Alpha
IsSchemeChar(c) == c \in SchemeChars

\* The length of the "<scheme>:" url starts with, 0 if it starts with none.
SchemeEnd(url) ==
    Then(Find(url, ":"), LAMBDA i :
      IF i > 1 /\ IsAlpha(Ch(url, 1)) /\ \A j \in 1..(i - 1) : IsSchemeChar(Ch(url, j))
      THEN i ELSE 0)

\* The netloc of what follows the scheme: what follows "//", up to the first
\* of "/", "?", "#".
NetlocOf(rest) ==
    IF ~StartsWith(rest, "//") THEN ""
    ELSE Then({i \in 3..Len(rest) : Ch(rest, i) \in {"/", "?", "#"}}, LAMBDA ends :
      IF ends = {} THEN SubSeq(rest, 3, Len(rest))
      ELSE SubSeq(rest, 3, Least(ends) - 1))

\* urlparse(url): its scheme, lower-cased by the parser, and its netloc.
urlparse(url) ==
    Then(SchemeEnd(url), LAMBDA i :
      [scheme |-> IF i = 0 THEN "" ELSE Lower(SubSeq(url, 1, i - 1)),
       netloc |-> NetlocOf(SubSeq(url, i + 1, Len(url)))])

UrlScheme(url) == urlparse(url).scheme
UrlNetloc(url) == urlparse(url).netloc

\* urlparse raises ValueError("Invalid IPv6 URL") on unbalanced brackets in the netloc.
UrlParseRaises(url) ==
    Then(UrlNetloc(url), LAMBDA netloc : (Find(netloc, "[") # 0) # (Find(netloc, "]") # 0))

-----------------------------------------------------------------------------
(* The filesystem: pathlib.Path, os and shutil, as far as the manager uses them *)

Parent(p) == SubSeq(p, 1, Len(p) - 1)
Name(p) == p[Len(p)]

\* Path(s) of an absolute path string: its components.
PathOf(s) == SelectSeq(Split(s, "/"), LAMBDA x : x # "")

RECURSIVE PathStr(_)
\* str(path)
PathStr(p) == IF p = <<>> THEN "" ELSE PathStr(Parent(p)) \o "/" \o Name(p)

NoTarget == <<>>

DirNode == [kind |-> "dir", target |-> NoTarget, content |-> "", mode |-> "0755",
            origin |-> "", head |-> ""]
FileNode(content, mode) == [kind |-> "file", target |-> NoTarget, content |-> content,
                            mode |-> mode, origin |-> "", head |-> ""]
LinkNode(target) == [kind |-> "symlink", target |-> target, content |-> "",
                     mode |-> "0777", origin |-> "", head |-> ""]

\* Failed path resolutions; no path has an empty first component.
ENOENT == <<"", "ENOENT">>
ENOTDIR == <<"", "ENOTDIR">>
ELOOP == <<"", "ELOOP">>
IsErr(c) == Len(c) > 0 /\ c[1] = ""

\* Symbolic links followed in one resolution, at most (the kernel's limit is 40).
MaxLinks == 4

RECURSIVE Canon(_, _, _, _)
\* The real place of base/rest, every symbolic link followed; the last
\* component need not exist.
Canon(f, base, rest, fuel) ==
    IF rest = <<>> THEN base
    ELSE LET q == Append(base, Head(rest))
         IN  IF q \notin DOMAIN f
             THEN (IF Len(rest) = 1 THEN q ELSE ENOENT)
             ELSE IF f[q].kind = "symlink"
             THEN (IF fuel = 0 THEN ELOOP
                   ELSE Canon(f, <<>>, f[q].target \o Tail(rest), fuel - 1))
             ELSE IF f[q].kind = "dir" THEN Canon(f, q, Tail(rest), fuel)
             ELSE (IF Len(rest) = 1 THEN q ELSE ENOTDIR)

\* os.stat's view of p: the place p resolves to.
Real(f, p) == Canon(f, <<>>, p, MaxLinks)

\* os.lstat's view of p: the parent resolved, the last component as it is.
LReal(f, p) ==
    IF p = <<>> THEN <<>>
    ELSE LET par == Real(f, Parent(p))
         IN  IF IsErr(par) THEN par
             ELSE IF par # <<>> /\ par \notin DOMAIN f THEN ENOENT
             ELSE IF par # <<>> /\ f[par].kind # "dir" THEN ENOTDIR
             ELSE Append(par, Name(p))

\* Path.exists()
Exists(f, p) == ~IsErr(Real(f, p)) /\ (Real(f, p) = <<>> \/ Real(f, p) \in DOMAIN f)

\* os.path.lexists
LExists(f, p) == ~IsErr(LReal(f, p)) /\ (LReal(f, p) = <<>> \/ LReal(f, p) \in DOMAIN f)

\* Path.is_symlink()
IsSymlink(f, p) == LExists(f, p) /\ p # <<>> /\ f[LReal(f, p)].kind = "symlink"

\* Path.is_dir()
IsDir(f, p) == Exists(f, p) /\ (Real(f, p) = <<>> \/ f[Real(f, p)].kind = "dir")

\* Path.is_file()
IsFile(f, p) == Exists(f, p) /\ Real(f, p) # <<>> /\ f[Real(f, p)].kind = "file"

IsPrefix(a, b) == Len(a) <= Len(b) /\ SubSeq(b, 1, Len(a)) = a

Put(f, p, node) == (p :> node) @@ f
Drop(f, gone) == [q \in DOMAIN f \ gone |-> f[q]]

Ok(f) == [ok |-> TRUE, fs |-> f, err |-> ""]
Fail(f, e) == [ok |-> FALSE, fs |-> f, err |-> e]

\* os.mkdir(p)
OsMkdir(f, p) ==
    LET l == LReal(f, p)
    IN  IF l = ENOENT THEN Fail(f, "FileNotFoundError")
        ELSE IF IsErr(l) THEN Fail(f, "NotADirectoryError")
        ELSE IF l = <<>> \/ l \in DOMAIN f THEN Fail(f, "FileExistsError")
        ELSE Ok(Put(f, l, DirNode))

RECURSIVE Mkdir(_, _, _, _)
\* Path.mkdir(parents=..., exist_ok=...)
Mkdir(f, p, parents, exist_ok) ==
    LET r == OsMkdir(f, p)
    IN  IF r.ok THEN r
        ELSE IF r.err = "FileNotFoundError"
        THEN (IF ~parents \/ p = <<>> THEN r
              ELSE LET up == Mkdir(f, Parent(p), TRUE, TRUE)
                   IN  IF up.ok THEN Mkdir(up.fs, p, FALSE, exist_ok) ELSE up)
        ELSE IF exist_ok /\ IsDir(f, p) THEN Ok(f)
        ELSE r

\* Path.unlink(missing_ok=...)
Unlink(f, p, missing_ok) ==
    LET l == LReal(f, p)
    IN  IF l = ENOENT \/ (~IsErr(l) /\ l \notin DOMAIN f)
        THEN (IF missing_ok THEN Ok(f) ELSE Fail(f, "FileNotFoundError"))
        ELSE IF IsErr(l) THEN Fail(f, "NotADirectoryError")
        ELSE IF f[l].kind = "dir" THEN Fail(f, "IsADirectoryError")
        ELSE Ok(Drop(f, {l}))

\* shutil.rmtree(p)
Rmtree(f, p) ==
    LET l == LReal(f, p)
    IN  IF l = ENOENT \/ (~IsErr(l) /\ l \notin DOMAIN f) THEN Fail(f, "FileNotFoundError")
        ELSE IF IsErr(l) THEN Fail(f, "NotADirectoryError")
        ELSE IF f[l].kind = "symlink" THEN Fail(f, "OSError")
        ELSE IF f[l].kind = "file" THEN Fail(f, "NotADirectoryError")
        ELSE Ok(Drop(f, {q \in DOMAIN f : IsPrefix(l, q)}))

\* link.symlink_to(target)
SymlinkTo(f, link, target) ==
    LET l == LReal(f, link)
    IN  IF l = ENOENT THEN Fail(f, "FileNotFoundError")
        ELSE IF IsErr(l) THEN Fail(f, "NotADirectoryError")
        ELSE IF l = <<>> \/ l \in DOMAIN f THEN Fail(f, "FileExistsError")
        ELSE Ok(Put(f, l, LinkNode(target)))

RECURSIVE UniversalNewlines(_)
\* Text-mode reading translates "\r\n" and "\r" to "\n".
UniversalNewlines(s) ==
    LET i == Find(s, "\r")
        skip == IF StartsWith(SubSeq(s, i, Len(s)), "\r\n") THEN 2 ELSE 1
    IN  IF i = 0 THEN s
        ELSE SubSeq(s, 1, i - 1) \o "\n" \o UniversalNewlines(SubSeq(s, i + skip, Len(s)))

\* Path.read_text(encoding="utf-8"): [ok, text, err]
ReadText(f, p) ==
    LET c == Real(f, p)
    IN  IF c = ENOENT \/ (~IsErr(c) /\ c # <<>> /\ c \notin DOMAIN f)
        THEN [ok |-> FALSE, text |-> "", err |-> "FileNotFoundError"]
        ELSE IF IsErr(c) THEN [ok |-> FALSE, text |-> "", err |-> "NotADirectoryError"]
        ELSE IF c = <<>> \/ f[c].kind # "file"
        THEN [ok |-> FALSE, text |-> "", err |-> "IsADirectoryError"]
        ELSE [ok |-> TRUE, text |-> UniversalNewlines(f[c].content), err |-> ""]

\* Path.write_text(text, encoding="utf-8"); a new file gets the umask's mode.
WriteText(f, p, text) ==
    LET c == Real(f, p)
    IN  IF c = ENOENT THEN Fail(f, "FileNotFoundError")
        ELSE IF IsErr(c) THEN Fail(f, "NotADirectoryError")
        ELSE IF c = <<>> THEN Fail(f, "IsADirectoryError")
        ELSE IF c \notin DOMAIN f THEN Ok(Put(f, c, FileNode(text, "0644")))
        ELSE IF f[c].kind # "file" THEN Fail(f, "IsADirectoryError")
        ELSE Ok([f EXCEPT ![c].content = text])

\* Path.chmod(mode)
Chmod(f, p, mode) ==
    LET c == Real(f, p)
    IN  IF IsErr(c) \/ c = <<>> \/ c \notin DOMAIN f THEN Fail(f, "FileNotFoundError")
        ELSE Ok([f EXCEPT ![c].mode = mode])

-----------------------------------------------------------------------------
(* The git subprocess layer, app.utils.git.operations, from its interface.  *)
(* A repository is a directory holding ".git" (a directory, or a gitfile);  *)
(* that node carries the repository's origin URL and its checked-out branch.*)
(* A call is [op, remote, path, branch, env]; it runs in a context          *)
(* [fs, self, raised, calls, steps] and fails when the input nd says so.    *)

\* The branch a remote's HEAD names, checked out by a clone without a branch.
DefaultBranch == "trunk"

GitNode(origin, head) == [DirNode EXCEPT !.origin = origin, !.head = head]

DotGit(p) == Append(p, ".git")

is_repository(f, p) == Exists(f, DotGit(p))

\* The origin URL and the branch of the repository at p.
RepoOrigin(f, p) == f[Real(f, DotGit(p))].origin
RepoHead(f, p) == f[Real(f, DotGit(p))].head

\* The environment of a call that is given none.
NoEnv == [k \in {} |-> ""]

Call(op, remote, path, branch, env) ==
    [op |-> op, remote |-> remote, path |-> path, branch |-> branch, env |-> env]

\* An exception e raised (none when e is ""), and one raised with its text,
\* str(exc).
Raise(ctx, e) == [ctx EXCEPT !.raised = e, !.text = ""]
RaiseWith(ctx, e, text) == [ctx EXCEPT !.raised = e, !.text = text]
Logged(ctx, c) == [ctx EXCEPT !.calls = Append(@, c)]
Step(ctx, name) == [ctx EXCEPT !.steps = Append(@, name)]

\* clone(url, path=..., branch=..., env=...) -> path
clone(ctx, url, path, branch, env, nd) ==
    Then(Logged(ctx, Call("clone", url, path, branch, env)), LAMBDA c :
      IF nd.fail = "clone" \/ LExists(c.fs, path) THEN RaiseWith(c, "GitCommandError", nd.text)
      ELSE Then(Mkdir(c.fs, path, TRUE, FALSE), LAMBDA made :
        IF ~made.ok THEN RaiseWith(c, "GitCommandError", nd.text)
        ELSE [c EXCEPT !.fs = Put(made.fs, DotGit(Real(made.fs, path)),
                                  GitNode(url, IF Truthy(branch) THEN branch
                                               ELSE DefaultBranch))]))

\* fetch(remote="origin", branch=..., cwd=..., env=...): contacts the origin of cwd
fetch(ctx, branch, cwd, env, nd) ==
    Then(Logged(ctx, Call("fetch", RepoOrigin(ctx.fs, cwd), cwd, branch, env)), LAMBDA c :
      IF nd.fail = "fetch" THEN RaiseWith(c, "GitCommandError", nd.text) ELSE c)

\* checkout(branch, cwd=...)
checkout(ctx, branch, cwd, nd) ==
    Then(Logged(ctx, Call("checkout", "", cwd, branch, NoEnv)), LAMBDA c :
      IF nd.fail = "checkout" THEN RaiseWith(c, "GitCommandError", nd.text)
      ELSE [c EXCEPT !.fs[Real(c.fs, DotGit(cwd))].head = branch])

\* init_repository(path)
init_repository(ctx, path, nd) ==
    Then(Logged(ctx, Call("init", "", path, None, NoEnv)), LAMBDA c :
      IF nd.fail = "init" \/ ~IsDir(c.fs, path) THEN RaiseWith(c, "GitCommandError", nd.text)
      ELSE [c EXCEPT !.fs = Put(c.fs, DotGit(Real(c.fs, path)),
                                GitNode("", DefaultBranch))])

-----------------------------------------------------------------------------
(* WorkspaceManager *)

DEFAULT_GIT_EXCLUDES ==
    << ".git/", ".hg/", ".svn/",
       ".DS_Store", "__pycache__/", ".pytest_cache/", ".mypy_cache/", ".ruff_cache/",
       "node_modules/", ".venv/", "venv/", ".next/", "dist/", "build/",
       ".claude_data/", ".claude/", "inputs/" >>

\* Path.home() and tempfile.gettempdir() of the executor's process.
HomePath == <<"root">>
TmpDir == <<"tmp">>

\* WorkspaceManager(mount_path)
NewManager(mount_path) ==
    [root_path |-> PathOf(mount_path),
     work_path |-> PathOf(mount_path),
     claude_config_path |-> Append(PathOf(mount_path), ".claude"),
     inputs_root |-> Append(PathOf(mount_path), "inputs"),
     persistent_claude_data |-> Append(PathOf(mount_path), ".claude_data"),
     system_claude_home |-> Append(HomePath, ".claude"),
     git_askpass_path |-> None]

AskpassScript ==
    "#!/bin/sh\nprompt=\"$1\"\ncase \"$prompt\" in\n"
    \o "  *Username*) echo \"${POCO_GIT_USERNAME:-x-access-token}\" ;;\n"
    \o "  *) echo \"${POCO_GIT_TOKEN:-}\" ;;\nesac\n"

\* tempfile.mkstemp(prefix=...): a new, empty, owner-only file; nd.tmp is the
\* random part of its name.
MkstempPath(prefix, nd) == Append(TmpDir, prefix \o nd.tmp)

\* _ensure_git_askpass without lines 168-169: a new script at every call.
ensure_git_askpass_anew(ctx, nd) ==
    LET p == MkstempPath("poco-git-askpass-", nd)
    IN  Then(WriteText(Put(ctx.fs, p, FileNode("", "0600")), p, AskpassScript),
             LAMBDA written :
          Then(Chmod(written.fs, p, "0700"), LAMBDA moded :
            [ctx |-> [ctx EXCEPT !.fs = moded.fs, !.self.git_askpass_path = PathStr(p)],
             ret |-> PathStr(p)]))

\* _ensure_git_askpass(): [ctx, ret]
ensure_git_askpass(ctx, nd) ==
    LET old == ctx.self.git_askpass_path
        p == MkstempPath("poco-git-askpass-", nd)
    IN  IF Truthy(old) /\ Exists(ctx.fs, PathOf(old))
        THEN [ctx |-> ctx, ret |-> old]
        ELSE Then(WriteText(Put(ctx.fs, p, FileNode("", "0600")), p, AskpassScript),
                  LAMBDA written :
             Then(Chmod(written.fs, p, "0700"), LAMBDA moded :
               [ctx |-> [ctx EXCEPT !.fs = moded.fs, !.self.git_askpass_path = PathStr(p)],
                ret |-> PathStr(p)]))

BaseEnv == ("GIT_TERMINAL_PROMPT" :> "0")

TokenHosts == {"github.com", "www.github.com"}

\* The test of lines 148-153 with the host matched by its ending.
TokenAllowedBySuffix(repo_url) ==
    Then(urlparse(repo_url), LAMBDA parsed :
      Then(Lower(Strip(OrEmpty(parsed.netloc))), LAMBDA host :
        ~(parsed.scheme \notin {"http", "https"}
          \/ ~\E h \in TokenHosts : EndsWith(host, h))))

\* The test of lines 148-153: whether the token may go to repo_url.
TokenAllowed(repo_url) ==
    Then(urlparse(repo_url), LAMBDA parsed :
      Then(Lower(Strip(OrEmpty(parsed.netloc))), LAMBDA host :
        ~(parsed.scheme \notin {"http", "https"} \/ host \notin TokenHosts)))

\* _build_git_env with the token written into the helper script instead of
\* the environment.
build_git_env_embedding(ctx, repo_url, git_token, nd) ==
    IF ~Truthy(git_token) \/ UrlParseRaises(repo_url) \/ ~TokenAllowed(repo_url)
    THEN [ctx |-> ctx, ret |-> BaseEnv]
    ELSE Then(ensure_git_askpass(ctx, nd), LAMBDA ask :
      [ctx |-> [ask.ctx EXCEPT !.fs = WriteText(ask.ctx.fs, PathOf(ask.ret),
                                                "#!/bin/sh\necho " \o git_token \o "\n").fs],
       ret |-> ("GIT_ASKPASS" :> ask.ret) @@ BaseEnv])

\* _build_git_env(repo_url, git_token): [ctx, ret]
build_git_env(ctx, repo_url, git_token, nd) ==
    IF ~Truthy(git_token) THEN [ctx |-> ctx, ret |-> BaseEnv]
    ELSE IF UrlParseRaises(repo_url) THEN [ctx |-> ctx, ret |-> BaseEnv]
    ELSE IF ~TokenAllowed(repo_url) THEN [ctx |-> ctx, ret |-> BaseEnv]
    ELSE Then(ensure_git_askpass(ctx, nd), LAMBDA ask :
      [ctx |-> ask.ctx,
       ret |-> ("GIT_ASKPASS" :> ask.ret) @@ ("POCO_GIT_USERNAME" :> "x-access-token")
               @@ ("POCO_GIT_TOKEN" :> git_token) @@ BaseEnv])

\* _derive_repo_path with the test of line 191 made before the ".git" of
\* lines 189-190 is cut off.
derive_repo_path_cut_last(slf, repo_url) ==
    LET clean == RStripCh(SplitFirst(SplitFirst(repo_url, "?"), "#"), "/")
        name0 == IF clean # "" THEN SplitLast(clean, "/") ELSE "repo"
        name1 == IF name0 = "" \/ name0 \in {".", ".."} THEN "repo" ELSE name0
        name == IF EndsWith(name1, ".git") THEN SubSeq(name1, 1, Len(name1) - Len(".git"))
                ELSE name1
    IN  Append(slf.root_path, name)

\* _derive_repo_path(repo_url)
derive_repo_path(slf, repo_url) ==
    LET clean == RStripCh(SplitFirst(SplitFirst(repo_url, "?"), "#"), "/")
        name0 == IF clean # "" THEN SplitLast(clean, "/") ELSE "repo"
        name1 == IF EndsWith(name0, ".git") THEN SubSeq(name0, 1, Len(name0) - Len(".git"))
                 ELSE name0
        name == IF name1 = "" \/ name1 \in {".", ".."} THEN "repo" ELSE name1
    IN  Append(slf.root_path, name)

\* _ensure_git_repo(path): a failed init is logged, not raised
ensure_git_repo(ctx, path, nd) ==
    IF is_repository(ctx.fs, path) THEN ctx
    ELSE Raise(init_repository(ctx, path, nd), "")

\* The runtime errors of lines 117, 128 and 217, by kind.
ConflictError == "RuntimeError: Target path exists but is not a git repository"
CloneError == "RuntimeError: Failed to clone repository"
CheckoutError == "RuntimeError: Failed to checkout branch"

\* The longest detail that is passed on whole.
DetailLimit == 2000

\* The single character U+2026 that marks a shortened detail, written here
\* with a character no error text of the model has.
Ellipsis == "~"

\* Lines 124-127 and 214-216 with >= for >: a detail of exactly DetailLimit
\* characters marked as shortened.
DetailAtLimit(text) ==
    IF Len(text) >= DetailLimit THEN SubSeq(text, 1, DetailLimit) \o Ellipsis ELSE text

\* Lines 124-127 and 214-216: str(exc), shortened when it is long.
Detail(text) ==
    IF Len(text) > DetailLimit THEN SubSeq(text, 1, DetailLimit) \o Ellipsis ELSE text

\* The messages of lines 117-119, 128-130 and 217-219.
ConflictMessage(repo_path) ==
    "Target path exists but is not a git repository: " \o PathStr(repo_path)
CloneMessage(repo_url, detail) ==
    "Failed to clone repository: " \o repo_url \o ". " \o detail
CheckoutMessage(branch, path, detail) ==
    "Failed to checkout branch '" \o branch \o "' for repo at " \o PathStr(path)
    \o ". " \o detail

\* _checkout_branch without line 212: the branch fetched, never switched to.
checkout_branch_fetch_only(ctx, path, branch, env, nd) ==
    IF ~Truthy(branch) THEN ctx
    ELSE Then(fetch(ctx, branch, path, env, nd), LAMBDA fetched :
      IF fetched.raised # ""
      THEN RaiseWith(fetched, CheckoutError,
                     CheckoutMessage(branch, path, Detail(fetched.text)))
      ELSE fetched)

\* _checkout_branch with line 212 outside the try block of line 210: the
\* branch switched to whether or not its fetch succeeded.
checkout_branch_regardless(ctx, path, branch, env, nd) ==
    IF ~Truthy(branch) THEN ctx
    ELSE Then(fetch(ctx, branch, path, env, nd), LAMBDA fetched :
      Then(checkout([fetched EXCEPT !.raised = ""], branch, path, nd), LAMBDA switched :
        IF fetched.raised # "" \/ switched.raised # ""
        THEN RaiseWith(switched, CheckoutError,
                       CheckoutMessage(branch, path,
                                       Detail(IF fetched.raised # "" THEN fetched.text
                                              ELSE switched.text)))
        ELSE switched))

\* _checkout_branch(path, branch, env=env)
checkout_branch(ctx, path, branch, env, nd) ==
    IF ~Truthy(branch) THEN ctx
    ELSE Then(fetch(ctx, branch, path, env, nd), LAMBDA fetched :
      IF fetched.raised # ""
      THEN RaiseWith(fetched, CheckoutError,
                     CheckoutMessage(branch, path, Detail(fetched.text)))
      ELSE Then(checkout(fetched, branch, path, nd), LAMBDA switched :
        IF switched.raised # ""
        THEN RaiseWith(switched, CheckoutError,
                       CheckoutMessage(branch, path, Detail(switched.text)))
        ELSE switched))

\* The rest of _ensure_cloned_repo with a failed clone logged instead of raised,
\* the way _ensure_git_repo treats a failed init.
ensure_cloned_repo_at_lenient(c, repo_url, branch, repo_path, git_env, nd) ==
    IF Exists(c.fs, repo_path) /\ is_repository(c.fs, repo_path)
    THEN [ctx |-> checkout_branch(c, repo_path, branch, git_env, nd), ret |-> repo_path]
    ELSE IF Exists(c.fs, repo_path) /\ ~is_repository(c.fs, repo_path)
    THEN [ctx |-> RaiseWith(c, ConflictError, ConflictMessage(repo_path)),
          ret |-> repo_path]
    ELSE [ctx |-> Raise(clone(c, repo_url, repo_path, branch, git_env, nd), ""),
          ret |-> repo_path]

\* The rest of _ensure_cloned_repo, from line 112 on, given the path and the
\* environment of lines 109-110.
ensure_cloned_repo_at(c, repo_url, branch, repo_path, git_env, nd) ==
    IF Exists(c.fs, repo_path) /\ is_repository(c.fs, repo_path)
    THEN [ctx |-> checkout_branch(c, repo_path, branch, git_env, nd), ret |-> repo_path]
    ELSE IF Exists(c.fs, repo_path) /\ ~is_repository(c.fs, repo_path)
    THEN [ctx |-> RaiseWith(c, ConflictError, ConflictMessage(repo_path)),
          ret |-> repo_path]
    ELSE Then(clone(c, repo_url, repo_path, branch, git_env, nd), LAMBDA cloned :
      IF cloned.raised # ""
      THEN [ctx |-> RaiseWith(cloned, CloneError,
                              CloneMessage(repo_url, Detail(cloned.text))),
            ret |-> repo_path]
      ELSE [ctx |-> cloned, ret |-> repo_path])

\* What the tests of lines 112 and 116 find at the target path.
TargetState(f, repo_path) ==
    IF ~Exists(f, repo_path) THEN "target:missing"
    ELSE IF is_repository(f, repo_path) THEN "target:repository"
    ELSE "target:other"

\* _ensure_cloned_repo(repo_url, branch, git_token=...): [ctx, ret]
ensure_cloned_repo(ctx, repo_url, branch, git_token, nd) ==
    Then(derive_repo_path(ctx.self, repo_url), LAMBDA repo_path :
      Then(build_git_env(ctx, repo_url, git_token, nd), LAMBDA built :
        ensure_cloned_repo_at(Step(Step(built.ctx, "resolve"),
                                   TargetState(built.ctx.fs, repo_path)),
                              repo_url, branch, repo_path, built.ret, nd)))

\* _prepare_repository(config): [ctx, ret]
prepare_repository(ctx, config, nd) ==
    LET repo_url == Strip(OrEmpty(config.repo_url))
        token == Strip(OrEmpty(config.git_token))
    IN  IF repo_url # ""
        THEN ensure_cloned_repo(ctx, repo_url, config.git_branch,
                                IF token # "" THEN token ELSE None, nd)
        ELSE [ctx |-> ensure_git_repo(ctx, ctx.self.root_path, nd),
              ret |-> ctx.self.root_path]

\* _setup_session_persistence()
setup_session_persistence(ctx) ==
    LET home == ctx.self.system_claude_home
        data == ctx.self.persistent_claude_data
    IN  Then(Mkdir(ctx.fs, data, FALSE, TRUE), LAMBDA made :
          IF ~made.ok THEN Raise(ctx, made.err)
          ELSE Then(IF Exists(made.fs, home) \/ IsSymlink(made.fs, home)
                    THEN (IF IsSymlink(made.fs, home) THEN Unlink(made.fs, home, FALSE)
                          ELSE Rmtree(made.fs, home))
                    ELSE Ok(made.fs), LAMBDA gone :
            IF ~gone.ok THEN Raise([ctx EXCEPT !.fs = gone.fs], gone.err)
            ELSE Then(SymlinkTo(gone.fs, home, data), LAMBDA linked :
              IF ~linked.ok THEN Raise([ctx EXCEPT !.fs = linked.fs], linked.err)
              ELSE [ctx EXCEPT !.fs = linked.fs])))

\* _ensure_inputs_dir without lines 277-283: the directory made, never linked.
ensure_inputs_dir_unlinked(ctx, repo_path) ==
    Then(Mkdir(ctx.fs, ctx.self.inputs_root, TRUE, TRUE), LAMBDA made :
      IF ~made.ok THEN ctx ELSE [ctx EXCEPT !.fs = made.fs])

\* _ensure_inputs_dir with a dangling link at link_path replaced, not left.
ensure_inputs_dir_relinking(ctx, repo_path) ==
    LET link_path == Append(repo_path, "inputs")
    IN  Then(Mkdir(ctx.fs, ctx.self.inputs_root, TRUE, TRUE), LAMBDA made :
          IF ~made.ok THEN ctx
          ELSE IF repo_path = ctx.self.root_path THEN [ctx EXCEPT !.fs = made.fs]
          ELSE IF Exists(made.fs, link_path) THEN [ctx EXCEPT !.fs = made.fs]
          ELSE [ctx EXCEPT !.fs = SymlinkTo(Unlink(made.fs, link_path, TRUE).fs,
                                            link_path, ctx.self.inputs_root).fs])

\* _ensure_inputs_dir(repo_path): failures are logged, not raised
ensure_inputs_dir(ctx, repo_path) ==
    LET link_path == Append(repo_path, "inputs")
    IN  Then(Mkdir(ctx.fs, ctx.self.inputs_root, TRUE, TRUE), LAMBDA made :
          IF ~made.ok THEN ctx
          ELSE IF repo_path = ctx.self.root_path THEN [ctx EXCEPT !.fs = made.fs]
          ELSE IF Exists(made.fs, link_path) THEN [ctx EXCEPT !.fs = made.fs]
          ELSE [ctx EXCEPT !.fs = SymlinkTo(made.fs, link_path, ctx.self.inputs_root).fs])

LineBreaks == {"\n", "\r", "\f"}

\* s.splitlines(): the lines of s, their line breaks ("\n", "\r\n", "\r",
\* "\f") dropped.
SplitLines(s) ==
    LET n == Len(s)
        brk == {i \in 1..n : /\ Ch(s, i) \in LineBreaks
                             /\ ~(Ch(s, i) = "\r" /\ i < n /\ Ch(s, i + 1) = "\n")}
        ends == brk \cup (IF n > 0 /\ n \notin brk THEN {n + 1} ELSE {})
        Nth(k) == CHOOSE e \in ends : Cardinality({x \in ends : x <= e}) = k
        Start(e) == IF \E x \in brk : x < e
                    THEN 1 + CHOOSE x \in brk : x < e /\ \A y \in brk : y < e => y <= x
                    ELSE 1
        Stop(e) == IF e <= n /\ e > 1 /\ Ch(s, e) = "\n" /\ Ch(s, e - 1) = "\r"
                   THEN e - 2 ELSE e - 1
    IN  [k \in 1..Cardinality(ends) |-> SubSeq(s, Start(Nth(k)), Stop(Nth(k)))]

RECURSIVE JoinLines(_)
\* "\n".join(lines)
JoinLines(lines) ==
    IF lines = <<>> THEN ""
    ELSE IF Len(lines) = 1 THEN lines[1]
    ELSE lines[1] \o "\n" \o JoinLines(Tail(lines))

Stripped(lines) == [i \in 1..Len(lines) |-> Strip(lines[i])]
NonEmpty(lines) == SelectSeq(lines, LAMBDA x : x # "")
Range(t) == {t[i] : i \in 1..Len(t)}

\* The candidate patterns without line 229: the values taken as they are
\* written, blanks included.
ExcludePatternsUnstripped(extra) ==
    DEFAULT_GIT_EXCLUDES
    \o (IF extra # "" THEN NonEmpty(SplitLines(ReplaceCh(extra, ",", "\n")))
        ELSE <<>>)

\* The candidate patterns of lines 225-231.
ExcludePatterns(extra) ==
    DEFAULT_GIT_EXCLUDES
    \o (IF extra # "" THEN NonEmpty(Stripped(SplitLines(ReplaceCh(extra, ",", "\n"))))
        ELSE <<>>)

\* Lines 238-248: the patterns the exclude file lists already.
ExistingPatterns(f, exclude_path) ==
    IF ~Exists(f, exclude_path) THEN {}
    ELSE Then(ReadText(f, exclude_path), LAMBDA read :
      IF read.ok THEN Range(NonEmpty(Stripped(SplitLines(read.text)))) ELSE {})

\* Lines 254-263: the missing patterns appended; a failure is logged, not raised.
AppendPatterns(f, exclude_path, to_add) ==
    IF ~Exists(f, exclude_path)
    THEN WriteText(f, exclude_path, JoinLines(to_add) \o "\n").fs
    ELSE Then(ReadText(f, exclude_path), LAMBDA read :
      IF ~read.ok THEN f
      ELSE WriteText(f, exclude_path,
                     (IF read.text # "" /\ ~EndsWith(read.text, "\n")
                      THEN read.text \o "\n" ELSE read.text)
                     \o JoinLines(to_add) \o "\n").fs)

\* _ensure_git_excludes(repo_path)
ensure_git_excludes(ctx, repo_path, env) ==
    LET exclude_path == repo_path \o <<".git", "info", "exclude">>
    IN  IF ~is_repository(ctx.fs, repo_path) THEN ctx
        ELSE Then(ExcludePatterns(env.WORKSPACE_GIT_IGNORE), LAMBDA patterns :
          IF patterns = <<>> THEN ctx
          ELSE Then(Mkdir(ctx.fs, Parent(exclude_path), TRUE, TRUE), LAMBDA made :
            IF ~made.ok THEN Raise(ctx, made.err)
            ELSE Then(ExistingPatterns(made.fs, exclude_path), LAMBDA existing :
              Then(SelectSeq(patterns, LAMBDA x : x \notin existing), LAMBDA to_add :
                IF to_add = <<>> THEN [ctx EXCEPT !.fs = made.fs]
                ELSE [ctx EXCEPT !.fs = AppendPatterns(made.fs, exclude_path, to_add)]))))

\* Lines 63-65 of prepare with lines 64 and 65 exchanged: the exclude file
\* before the inputs directory.
prepare_rest_excludes_first(r, env) ==
    Then([r.ctx EXCEPT !.self.work_path = r.ret], LAMBDA c2 :
      Then(ensure_git_excludes(Step(c2, "excludes"), c2.self.work_path, env), LAMBDA c3 :
        IF c3.raised # "" THEN c3
        ELSE ensure_inputs_dir(Step(c3, "inputs"), c3.self.work_path)))

\* Lines 63-65 of prepare, after _prepare_repository has returned r.
prepare_rest(r, env) ==
    Then([r.ctx EXCEPT !.self.work_path = r.ret], LAMBDA c2 :
      Then(ensure_inputs_dir(Step(c2, "inputs"), c2.self.work_path), LAMBDA c3 :
        ensure_git_excludes(Step(c3, "excludes"), c3.self.work_path, env)))

\* prepare(config)
prepare(ctx, config, nd, env) ==
    LET root == ctx.self.root_path
    IN  Then(IF ~Exists(ctx.fs, root) THEN Mkdir(ctx.fs, root, TRUE, TRUE) ELSE Ok(ctx.fs),
             LAMBDA made :
          IF ~made.ok THEN Raise(ctx, made.err)
          ELSE Then(setup_session_persistence(Step([ctx EXCEPT !.fs = made.fs], "persistence")),
                    LAMBDA c1 :
            IF c1.raised # "" THEN c1
            ELSE Then(prepare_repository(Step(c1, "repository"), config, nd), LAMBDA r2 :
              IF r2.ctx.raised # "" THEN r2.ctx
              ELSE prepare_rest(r2, env))))

\* Path.unlink in cleanup(): the operating system refuses it when the input
\* nd says so (a directory that may not be written, a read-only filesystem).
RefusableUnlink(f, p, missing_ok, nd) ==
    IF nd.fail = "unlink" THEN Fail(f, "PermissionError") ELSE Unlink(f, p, missing_ok)

\* cleanup() with the link followed: what it names removed along with it.
cleanup_following(ctx, nd) ==
    LET home == ctx.self.system_claude_home
        ask == ctx.self.git_askpass_path
    IN  Then(IF IsSymlink(ctx.fs, home)
             THEN RefusableUnlink(Rmtree(ctx.fs, Real(ctx.fs, home)).fs, home, FALSE, nd)
             ELSE Ok(ctx.fs),
             LAMBDA unlinked :
          IF ~unlinked.ok THEN Raise(ctx, unlinked.err)
          ELSE IF Truthy(ask)
          THEN [ctx EXCEPT !.fs = RefusableUnlink(unlinked.fs, PathOf(ask), TRUE, nd).fs,
                           !.self.git_askpass_path = None]
          ELSE [ctx EXCEPT !.fs = unlinked.fs])

\* cleanup() without lines 84-87: the helper script forgotten, not deleted.
cleanup_forgetting(ctx, nd) ==
    LET home == ctx.self.system_claude_home
    IN  Then(IF IsSymlink(ctx.fs, home) THEN RefusableUnlink(ctx.fs, home, FALSE, nd)
             ELSE Ok(ctx.fs),
             LAMBDA unlinked :
          IF ~unlinked.ok THEN Raise(ctx, unlinked.err)
          ELSE [ctx EXCEPT !.fs = unlinked.fs, !.self.git_askpass_path = None])

\* cleanup()
cleanup(ctx, nd) ==
    LET home == ctx.self.system_claude_home
        ask == ctx.self.git_askpass_path
    IN  Then(IF IsSymlink(ctx.fs, home) THEN RefusableUnlink(ctx.fs, home, FALSE, nd)
             ELSE Ok(ctx.fs),
             LAMBDA unlinked :
          IF ~unlinked.ok THEN Raise(ctx, unlinked.err)
          ELSE IF Truthy(ask)
          THEN [ctx EXCEPT !.fs = RefusableUnlink(unlinked.fs, PathOf(ask), TRUE, nd).fs,
                           !.self.git_askpass_path = None]
          ELSE [ctx EXCEPT !.fs = unlinked.fs])

-----------------------------------------------------------------------------
(* Inputs *)

\* Calls made in one behaviour, at most.
MaxOps == 2

MountPath == "/workspace"
Root == PathOf(MountPath)

\* URLs by their parts: scheme "://" [user "@"] host [":" port] path.
Schemes == {"https", "HTTP", "ssh"}
\* The user and the port of a URL: neither, the one, or the other.
UserPorts == {<<"", "">>, <<"git", "">>, <<"", "443">>}
Hosts == {"github.com", "GitHub.com", "www.github.com", "gitlab.com",
          "github.com.evil.io", "evilgithub.com"}

MkUrl(u) ==
    u.scheme \o "://" \o (IF u.user # "" THEN u.user \o "@" ELSE "") \o u.host
    \o (IF u.port # "" THEN ":" \o u.port ELSE "") \o u.path

UrlParts(scheme, user, host, port, path) ==
    [scheme |-> scheme, user |-> user, host |-> host, port |-> port, path |-> path]

\* The URLs build_git_env is called with directly.
EnvUrls ==
    {UrlParts(s, up[1], h, up[2], "/acme/demo.git") : s \in Schemes, h \in Hosts, up \in UserPorts}

EnvTokens == {None, "", "tokA"}

\* The repositories prepare() is asked for.
DemoUrl == UrlParts("https", "", "github.com", "", "/acme/demo.git")
EvilUrl == UrlParts("https", "", "gitlab.com", "", "/evil/demo/?tab=readme#top")
RepoUrls == {DemoUrl, EvilUrl}

\* config.repo_url: absent, blank, or a URL (possibly padded with blanks).
Config(url, branch, token) == [repo_url |-> url, git_branch |-> branch, git_token |-> token]

\* The task configurations: every URL, with and without a branch, with and
\* without a token.
Configs ==
    { Config(None, None, None),
      Config("  ", "main", "tokA"),
      Config(" " \o MkUrl(DemoUrl) \o " ", "main", "tokA"),
      Config(" " \o MkUrl(DemoUrl) \o " ", "main", " tokB "),
      Config(" " \o MkUrl(DemoUrl) \o " ", None, "tokA"),
      Config(" " \o MkUrl(DemoUrl) \o " ", "", "  "),
      Config(MkUrl(EvilUrl), "main", "tokA"),
      Config(MkUrl(EvilUrl), "main", " tokB "),
      Config(MkUrl(EvilUrl), None, None) }

\* The inputs of a call that the manager does not control: which git
\* operation fails, and the name mkstemp draws.
GitOps == {"clone", "fetch", "checkout", "init"}
TmpNames == {"a", "b"}
\* What a failing git operation says of its failure: str(exc).
Texts == {"fatal: failed"}

Inputs == [fail : {"none"} \cup GitOps, tmp : TmpNames, text : Texts]

ExtraValues == {"*.log, dist/ ,,*.log"}

---------------------------------------------------------------------------
(* Initial filesystems: a home directory, a temporary directory, and a mount *)

FsOf(entries) == [p \in DOMAIN entries |-> entries[p]]

BaseFs == (HomePath :> DirNode) @@ (TmpDir :> DirNode)
MountFs == (Root :> DirNode) @@ BaseFs

Data == Append(Root, ".claude_data")
Home == Append(HomePath, ".claude")
Demo == Append(Root, "demo")

PlainDemo == (Demo :> DirNode) @@ (Append(Demo, "notes.txt") :> FileNode("n", "0644"))
HomeFile == (Home :> FileNode("x", "0644"))

\* What may occupy ~/.claude before prepare().
HomeLeftovers ==
    { (Home :> LinkNode(Data)),
      (Home :> DirNode) @@ (Append(Home, "settings.json") :> FileNode("{}", "0644")),
      HomeFile }

\* What an earlier session leaves at <root>/.claude_data.
DataLeftovers ==
    { (Data :> DirNode) @@ (Append(Data, "history") :> FileNode("h", "0644"))
        @@ (Home :> LinkNode(Data)) }

RepoAt(p, url, head) == (p :> DirNode) @@ (DotGit(p) :> GitNode(url, head))

\* What may be at <root>/demo.
DemoLeftovers ==
    { PlainDemo,
      RepoAt(Demo, MkUrl(DemoUrl), "dev"),
      RepoAt(Demo, MkUrl(EvilUrl), "main"),
      RepoAt(Demo, MkUrl(DemoUrl), "dev")
        @@ (Demo \o <<".git", "info">> :> DirNode)
        @@ (Demo \o <<".git", "info", "exclude">> :> FileNode("# local\r\n.venv/\n  dist/  ", "0644")),
      RepoAt(Demo, MkUrl(DemoUrl), "dev")
        @@ (Demo \o <<".git", "info">> :> FileNode("", "0644")),
      (Demo :> DirNode)
        @@ (DotGit(Demo) :> [FileNode("gitdir: /srv/demo.git", "0644")
                             EXCEPT !.origin = MkUrl(DemoUrl), !.head = "dev"]) }

\* What may occupy the places of the inputs directory and of its link: a
\* regular file at <root>/inputs; a directory "inputs" in the repository.
InputsOccupied ==
    { (Append(Root, "inputs") :> FileNode("in", "0644")),
      RepoAt(Demo, MkUrl(DemoUrl), "dev")
        @@ (Append(Demo, "inputs") :> DirNode)
        @@ (Demo \o <<"inputs", "a.txt">> :> FileNode("a", "0644")) }

InitFilesystems ==
    {BaseFs, MountFs, RepoAt(Root, "", "main") @@ BaseFs}
    \cup {x @@ MountFs : x \in HomeLeftovers \cup DataLeftovers \cup DemoLeftovers}
    \cup {HomeFile @@ PlainDemo @@ MountFs,
          HomeFile @@ RepoAt(Demo, MkUrl(DemoUrl), "dev") @@ MountFs}
    \cup {x @@ MountFs : x \in InputsOccupied}

NoConfig == [repo_url |-> None, git_branch |-> None, git_token |-> None]
NoParts == UrlParts("", "", "", "", "")
NoInputs == [fail |-> "none", tmp |-> "a", text |-> ""]

Ctx(f, slf) ==
    [fs |-> f, self |-> slf, raised |-> "", text |-> "", calls |-> <<>>, steps |-> <<>>]

Record(op, config, parts, nd, ctx, ret) ==
    [op |-> op, config |-> config, parts |-> parts, nd |-> nd,
     pre_fs |-> fs, pre_self |-> self,
     raised |-> ctx.raised, text |-> ctx.text, calls |-> ctx.calls, steps |-> ctx.steps,
     ret |-> ret]

InitOf(filesystems) ==
    /\ fs \in filesystems
    /\ self = NewManager(MountPath)
    /\ environ \in {[WORKSPACE_GIT_IGNORE |-> v] : v \in ExtraValues}
    /\ last = [op |-> "new", config |-> NoConfig, parts |-> NoParts, nd |-> NoInputs,
               pre_fs |-> fs, pre_self |-> self,
               raised |-> "", text |-> "", calls |-> <<>>, steps |-> <<>>, ret |-> NoEnv]
    /\ nops = 0

Init == InitOf(InitFilesystems)

\* The inputs that matter to a call, given what it does when nothing fails
\* (ctx): a failure of an operation the call makes, and a temporary name that
\* is free when the call draws one.
InputsOf(ctx) ==
    {nd \in Inputs :
        /\ nd.fail = "none" \/ \E i \in 1..Len(ctx.calls) : ctx.calls[i].op = nd.fail
        /\ IF ctx.self.git_askpass_path # self.git_askpass_path
           THEN MkstempPath("poco-git-askpass-", nd) \notin DOMAIN fs
           ELSE nd.tmp = "a"}

Done(op, config, parts, nd, ctx, ret) ==
    /\ fs' = ctx.fs
    /\ self' = ctx.self
    /\ last' = Record(op, config, parts, nd, ctx, ret)
    /\ nops' = IF nops < MaxOps THEN nops + 1 ELSE nops
    /\ UNCHANGED environ

\* await manager.prepare(config)
Prepare ==
    \E config \in Configs :
      \E dry \in {prepare(Ctx(fs, self), config, NoInputs, environ)} :
        \E nd \in InputsOf(dry) :
          \E ctx \in {prepare(Ctx(fs, self), config, nd, environ)} :
            Done("prepare", config, NoParts, nd, ctx, NoEnv)

\* The inputs that matter to cleanup(): a refused unlink, where it makes one.
CleanupInputs ==
    {nd \in [fail : {"none", "unlink"}, tmp : {"a"}, text : {""}] :
        \/ nd.fail = "none"
        \/ IsSymlink(fs, self.system_claude_home)
        \/ Truthy(self.git_askpass_path)}

\* await manager.cleanup()
Cleanup ==
    \E nd \in CleanupInputs :
      \E ctx \in {cleanup(Ctx(fs, self), nd)} :
        Done("cleanup", NoConfig, NoParts, nd, ctx, NoEnv)

\* manager._build_git_env(repo_url, git_token), called on its own
BuildGitEnvOf(urls, tokens) ==
    \E u \in urls, t \in tokens :
      \E dry \in {build_git_env(Ctx(fs, self), MkUrl(u), t, NoInputs)} :
        \E nd \in InputsOf(dry.ctx) :
          \E r \in {build_git_env(Ctx(fs, self), MkUrl(u), t, nd)} :
            Done("build_git_env",
                 [repo_url |-> MkUrl(u), git_branch |-> None, git_token |-> t],
                 u, nd, r.ctx, r.ret)

BuildGitEnv == BuildGitEnvOf({DemoUrl, EvilUrl}, {"tokA"})

\* One session: at most MaxOps calls on the manager.
Next ==
    \/ nops < MaxOps /\ Prepare
    \/ nops < MaxOps /\ Cleanup
    \/ nops < MaxOps /\ BuildGitEnv

Spec == Init /\ [][Next]_vars

\* The credential broker on its own, with every URL and token.
BuildGitEnvAny == BuildGitEnvOf(EnvUrls, EnvTokens)

NextEnv ==
    \/ nops < MaxOps /\ BuildGitEnvAny
    \/ nops < MaxOps /\ Cleanup

InitEnv == InitOf({MountFs, (Home :> LinkNode(Data)) @@ MountFs})

SpecEnv == InitEnv /\ [][NextEnv]_vars

-----------------------------------------------------------------------------
(* The exclude-file maintainer and the inputs linker, called on their own *)

\* WORKSPACE_GIT_IGNORE: unset; a value that repeats a pattern and a built-in
\* one, padded; a value split by a line break.
IgnoreValues == {"", "*.log, dist/ ,,*.log", "tmp/\r\n*.bak"}

Nothing == [p \in {} |-> DirNode]

InfoDir(p) == p \o <<".git", "info">>
ExcludeFile(p) == p \o <<".git", "info", "exclude">>
InputsLink(p) == Append(p, "inputs")

\* What may be at .git/info of the repository at p: nothing; an empty
\* directory; an exclude file that is empty, hand-written, repetitive or
\* complete; a directory in the exclude file's place.
ExcludeLeftovers(p) ==
    { Nothing,
      (InfoDir(p) :> DirNode),
      (InfoDir(p) :> DirNode) @@ (ExcludeFile(p) :> FileNode("", "0644")),
      (InfoDir(p) :> DirNode)
        @@ (ExcludeFile(p) :> FileNode("# local\r\n.venv/\n  dist/  ", "0644")),
      (InfoDir(p) :> DirNode)
        @@ (ExcludeFile(p) :> FileNode("dist/\ndist/\n*.log\n", "0644")),
      (InfoDir(p) :> DirNode)
        @@ (ExcludeFile(p) :> FileNode(JoinLines(DEFAULT_GIT_EXCLUDES)
                                       \o "\n*.log\ntmp/\n*.bak\n", "0644")),
      (InfoDir(p) :> DirNode) @@ (ExcludeFile(p) :> DirNode) }

Gone == <<"srv", "gone">>

\* What may be at <p>/inputs: nothing, a regular file, a directory with a
\* file in it, a symbolic link to to, a dangling symbolic link.
InputsLeftovers(p, to) ==
    { Nothing,
      (InputsLink(p) :> FileNode("in", "0644")),
      (InputsLink(p) :> DirNode) @@ (Append(InputsLink(p), "a.txt") :> FileNode("a", "0644")),
      (InputsLink(p) :> LinkNode(to)),
      (InputsLink(p) :> LinkNode(Gone)) }

PartsFilesystems ==
    {x @@ RepoAt(Root, "", "main") @@ BaseFs : x \in ExcludeLeftovers(Root)}
    \cup {x @@ y @@ RepoAt(Demo, MkUrl(DemoUrl), "main") @@ MountFs :
            x \in InputsLeftovers(Demo, InputsLink(Root)),
            y \in InputsLeftovers(Root, TmpDir)}
    \cup {PlainDemo @@ MountFs}

RepoPaths == {Root, Demo}

\* A helper called with arg on its own; again tells a call that repeats the
\* call before it.
InitPart(filesystems, arg) ==
    /\ fs \in filesystems
    /\ self = NewManager(MountPath)
    /\ environ \in {[WORKSPACE_GIT_IGNORE |-> v] : v \in IgnoreValues}
    /\ last = [op |-> "new", arg |-> arg, again |-> FALSE,
               pre_fs |-> fs, pre_self |-> self, raised |-> "", ret |-> arg,
               pre_ret |-> arg]
    /\ nops = 0

PartDone(op, arg, ctx, ret) ==
    /\ fs' = ctx.fs
    /\ self' = ctx.self
    /\ last' = [op |-> op, arg |-> arg, again |-> (last.op = op /\ last.arg = arg),
                pre_fs |-> fs, pre_self |-> self, raised |-> ctx.raised, ret |-> ret,
                pre_ret |-> last.ret]
    /\ nops' = IF nops < MaxOps THEN nops + 1 ELSE nops
    /\ UNCHANGED environ

\* manager._ensure_git_excludes(repo_path)
EnsureGitExcludes ==
    \E repo_path \in RepoPaths :
      \E ctx \in {ensure_git_excludes(Ctx(fs, self), repo_path, environ)} :
        PartDone("ensure_git_excludes", repo_path, ctx, repo_path)

\* manager._ensure_inputs_dir(repo_path)
EnsureInputsDir ==
    \E repo_path \in RepoPaths :
      \E ctx \in {ensure_inputs_dir(Ctx(fs, self), repo_path)} :
        PartDone("ensure_inputs_dir", repo_path, ctx, repo_path)

NextParts ==
    \/ nops < MaxOps /\ EnsureGitExcludes
    \/ nops < MaxOps /\ EnsureInputsDir

InitParts == InitPart(PartsFilesystems, <<>>)

SpecParts == InitParts /\ [][NextParts]_vars

-----------------------------------------------------------------------------
(* The path deriver, called on its own *)

\* URL strings by their parts: what precedes the last segment, the segment,
\* and what follows it.
UrlHeads == {"", "https://github.com/acme/", "../"}
UrlNames == {"", "demo", "demo.git", ".git", "..git", "...git", ".", "..",
             "a.git.git", " ", "re po.GIT"}
UrlTails == {"", "/", "//", "?x=/y", "#frag/..", "/?q#f", "#f?q/z"}

\* URLs of repositories named as the directories the manager makes for itself.
NamesakeUrls ==
    {"https://github.com/acme/inputs.git", "https://github.com/acme/.claude_data/",
     "git@github.com:acme/.claude"}

PathUrls ==
    {h \o n \o t : h \in UrlHeads, n \in UrlNames, t \in UrlTails} \cup NamesakeUrls

\* manager._derive_repo_path(repo_url)
DeriveRepoPath ==
    \E repo_url \in PathUrls :
      PartDone("derive_repo_path", repo_url, Ctx(fs, self),
               derive_repo_path(self, repo_url))

NextPath == nops < MaxOps /\ DeriveRepoPath

InitPath == InitPart({MountFs}, "")

SpecPath == InitPath /\ [][NextPath]_vars

-----------------------------------------------------------------------------
(* Two managers in one executor process, each on a mount of its own *)

Managers == {"A", "B"}
MountOf == [A |-> MountPath, B |-> "/srv/b"]

\* Both managers share Path.home() and the temporary directory.
InitTwo ==
    /\ fs \in {BaseFs, MountFs}
    /\ self = [m \in Managers |-> NewManager(MountOf[m])]
    /\ environ \in {[WORKSPACE_GIT_IGNORE |-> v] : v \in ExtraValues}
    /\ last = [op |-> "new", who |-> "", raised |-> "", pre_fs |-> fs, pre_self |-> self,
               held |-> {}, acted |-> {}]
    /\ nops = 0

\* A call by manager m; held are the managers whose prepare() has succeeded
\* and whose cleanup() has not been called since, acted those that were
\* called at all.
DoneBy(m, op, ctx) ==
    /\ fs' = ctx.fs
    /\ self' = [self EXCEPT ![m] = ctx.self]
    /\ last' = [op |-> op, who |-> m, raised |-> ctx.raised, pre_fs |-> fs, pre_self |-> self,
                held |-> IF op = "cleanup" THEN last.held \ {m}
                         ELSE IF ctx.raised = "" THEN last.held \cup {m}
                         ELSE last.held,
                acted |-> last.acted \cup {m}]
    /\ nops' = IF nops < MaxOps THEN nops + 1 ELSE nops
    /\ UNCHANGED environ

\* The inputs of a prepare() by m in which no git operation fails: a
\* temporary name that is free when the call draws one.
FreeNames(m, ctx) ==
    {nd \in [fail : {"none"}, tmp : TmpNames, text : {""}] :
        IF ctx.self.git_askpass_path # self[m].git_askpass_path
        THEN MkstempPath("poco-git-askpass-", nd) \notin DOMAIN fs
        ELSE nd.tmp = "a"}

\* await m.prepare(config)
PrepareBy ==
    \E m \in Managers, config \in Configs :
      \E dry \in {prepare(Ctx(fs, self[m]), config, NoInputs, environ)} :
        \E nd \in FreeNames(m, dry) :
          \E ctx \in {prepare(Ctx(fs, self[m]), config, nd, environ)} :
            DoneBy(m, "prepare", ctx)

\* await m.cleanup()
CleanupBy ==
    \E m \in Managers :
      \E ctx \in {cleanup(Ctx(fs, self[m]), NoInputs)} :
        DoneBy(m, "cleanup", ctx)

NextTwo ==
    \/ nops < MaxOps /\ PrepareBy
    \/ nops < MaxOps /\ CleanupBy

SpecTwo == InitTwo /\ [][NextTwo]_vars

-----------------------------------------------------------------------------
(* prepare() with git operations that fail, and say so at length *)

RECURSIVE Rep(_, _)
\* s * n
Rep(s, n) ==
    IF n = 0 THEN ""
    ELSE IF n % 2 = 1 THEN s \o Rep(s, n - 1)
    ELSE Rep(s \o s, n \div 2)

\* The lengths of the error texts: none, short, and around DetailLimit.
TextLengths ==
    {0, 1, DetailLimit - 1, DetailLimit, DetailLimit + 1, DetailLimit + 2, 2 * DetailLimit}

LongText == Rep("0123456789", (2 * DetailLimit) \div 10 + 1)

\* str(exc) of the git errors and OS errors of the failing operations.
ErrorTexts == {SubSeq(LongText, 1, n) : n \in TextLengths}

FailConfigs ==
    { Config(MkUrl(DemoUrl), "main", "tokA"), Config(MkUrl(DemoUrl), "dev", None) }

FailFilesystems == {MountFs, RepoAt(Demo, MkUrl(DemoUrl), "dev") @@ MountFs}

\* The inputs of a prepare() whose git operations may fail: the operation
\* that fails, one of those the call makes (ctx is the call with none
\* failing), and the text of its error.
FailInputs(ctx) ==
    {nd \in [fail : {"none", "clone", "fetch", "checkout"}, tmp : {"a"}, text : ErrorTexts] :
        IF nd.fail = "none" THEN nd.text = ""
        ELSE \E i \in 1..Len(ctx.calls) : ctx.calls[i].op = nd.fail}

InitFail == InitOf(FailFilesystems)

\* await manager.prepare(config), with a git operation failing or none
PrepareFailing ==
    \E config \in FailConfigs :
      \E dry \in {prepare(Ctx(fs, self), config, NoInputs, environ)} :
        \E nd \in FailInputs(dry) :
          \E ctx \in {prepare(Ctx(fs, self), config, nd, environ)} :
            Done("prepare", config, NoParts, nd, ctx, NoEnv)

NextFail == nops < MaxOps /\ PrepareFailing

SpecFail == InitFail /\ [][NextFail]_vars

-----------------------------------------------------------------------------
(* The lifetime of one manager, with the helper scripts it writes counted *)

\* Calls made in one lifetime, at most.
MaxCalls == 3

LifeConfigs ==
    { Config(MkUrl(DemoUrl), "main", "tokA"),
      Config(MkUrl(DemoUrl), None, "tokA"),
      Config(MkUrl(EvilUrl), "main", "tokA"),
      NoConfig }

LifeUrls == {DemoUrl, EvilUrl}
LifeTokens == {None, "tokA"}

\* The files a call has added to the temporary directory.
NewScripts(f) == {q \in DOMAIN f \ DOMAIN fs : Len(q) = Len(TmpDir) + 1 /\ Parent(q) = TmpDir}

\* created counts the helper scripts written since the manager was made,
\* since those written since the last cleanup() was called.
InitLife ==
    /\ fs = MountFs
    /\ self = NewManager(MountPath)
    /\ environ \in {[WORKSPACE_GIT_IGNORE |-> v] : v \in ExtraValues}
    /\ last = [op |-> "new", config |-> NoConfig, nd |-> NoInputs,
               pre_fs |-> fs, pre_self |-> self,
               raised |-> "", calls |-> <<>>, steps |-> <<>>, ret |-> NoEnv,
               created |-> 0, since |-> 0]
    /\ nops = 0

LifeDone(op, config, nd, ctx, ret) ==
    /\ fs' = ctx.fs
    /\ self' = ctx.self
    /\ last' = [op |-> op, config |-> config, nd |-> nd,
                pre_fs |-> fs, pre_self |-> self,
                raised |-> ctx.raised, calls |-> ctx.calls, steps |-> ctx.steps, ret |-> ret,
                created |-> last.created + Cardinality(NewScripts(ctx.fs)),
                since |-> IF op = "cleanup" THEN 0
                          ELSE last.since + Cardinality(NewScripts(ctx.fs))]
    /\ nops' = nops + 1
    /\ UNCHANGED environ

\* The inputs of a call in which no git operation fails.
LifeInputs(ctx) ==
    {nd \in [fail : {"none"}, tmp : TmpNames, text : {""}] :
        IF ctx.self.git_askpass_path # self.git_askpass_path
        THEN MkstempPath("poco-git-askpass-", nd) \notin DOMAIN fs
        ELSE nd.tmp = "a"}

\* await manager.prepare(config)
LifePrepare ==
    \E config \in LifeConfigs :
      \E dry \in {prepare(Ctx(fs, self), config, NoInputs, environ)} :
        \E nd \in LifeInputs(dry) :
          \E ctx \in {prepare(Ctx(fs, self), config, nd, environ)} :
            LifeDone("prepare", config, nd, ctx, NoEnv)

\* manager._build_git_env(repo_url, git_token)
LifeBuildGitEnv ==
    \E u \in LifeUrls, t \in LifeTokens :
      \E dry \in {build_git_env(Ctx(fs, self), MkUrl(u), t, NoInputs)} :
        \E nd \in LifeInputs(dry.ctx) :
          \E r \in {build_git_env(Ctx(fs, self), MkUrl(u), t, nd)} :
            LifeDone("build_git_env", Config(MkUrl(u), None, t), nd, r.ctx, r.ret)

\* await manager.cleanup()
LifeCleanup ==
    \E nd \in CleanupInputs :
      \E ctx \in {cleanup(Ctx(fs, self), nd)} :
        LifeDone("cleanup", NoConfig, nd, ctx, NoEnv)

NextLife ==
    \/ nops < MaxCalls /\ LifePrepare
    \/ nops < MaxCalls /\ LifeBuildGitEnv
    \/ nops < MaxCalls /\ LifeCleanup

SpecLife == InitLife /\ [][NextLife]_vars

-----------------------------------------------------------------------------
(* The credential broker: _build_git_env on its own (SpecEnv) *)

\* The authority of a URL as it is written: [user "@"] host [":" port].
Authority(u) ==
    (IF u.user # "" THEN u.user \o "@" ELSE "") \o u.host
    \o (IF u.port # "" THEN ":" \o u.port ELSE "")

\* The environment with the token, and the one without.
Injected(env, token) ==
    /\ DOMAIN env = {"GIT_TERMINAL_PROMPT", "GIT_ASKPASS", "POCO_GIT_USERNAME",
                     "POCO_GIT_TOKEN"}
    /\ env["GIT_TERMINAL_PROMPT"] = "0"
    /\ env["POCO_GIT_USERNAME"] = "x-access-token"
    /\ env["POCO_GIT_TOKEN"] = token
    /\ IsFile(fs, PathOf(env["GIT_ASKPASS"]))

Withheld(env) == DOMAIN env = {"GIT_TERMINAL_PROMPT"} /\ env["GIT_TERMINAL_PROMPT"] = "0"

-----------------------------------------------------------------------------
(* prepare(), seen from the state after it: last holds the call, fs and self *)
(* its effects (Spec)                                                        *)

\* config.repo_url as prepare() reads it: "" when absent or blank.
RepoUrl(config) == IF config.repo_url = None THEN "" ELSE Strip(config.repo_url)

\* The target path of the last call's URL.
Target == derive_repo_path(last.pre_self, RepoUrl(last.config))

\* The git operations of the last call, in order.
Ops == [i \in 1..Len(last.calls) |-> last.calls[i].op]

\* The part of the filesystem at and below p.
Under(f, p) == [q \in {q \in DOMAIN f : IsPrefix(p, q)} |-> f[q]]

\* Whether t occurs in s.
Contains(s, t) == \E i \in 1..(Len(s) - Len(t) + 1) : SubSeq(s, i, i + Len(t) - 1) = t

UrlHost(url) == Lower(UrlNetloc(url))

\* C2: in a prepare() run, a git call that has the token in its environment
\* contacts a remote on the allow-listed host of config.repo_url, be it the
\* clone or the fetch of origin in a repository found at the target path.
C2_TokenOnlyToRepoHost ==
    last.op = "prepare" =>
        \A i \in 1..Len(last.calls) :
            "POCO_GIT_TOKEN" \in DOMAIN last.calls[i].env =>
                /\ UrlHost(last.calls[i].remote) \in {"github.com", "www.github.com"}
                /\ UrlHost(last.calls[i].remote) = UrlHost(RepoUrl(last.config))

\* Other values of the token.
TokenVariants == {"tokA", "tokZ"}

\* The calls of two runs agree but for the value of POCO_GIT_TOKEN.
SameButToken(a, b) ==
    /\ Len(a) = Len(b)
    /\ \A i \in 1..Len(a) :
          /\ [a[i] EXCEPT !.env = NoEnv] = [b[i] EXCEPT !.env = NoEnv]
          /\ DOMAIN a[i].env = DOMAIN b[i].env
          /\ \A k \in DOMAIN a[i].env \ {"POCO_GIT_TOKEN"} : a[i].env[k] = b[i].env[k]

\* C3: a prepare() run with another non-blank token, from the same filesystem
\* and manager, leaves the same filesystem and the same manager fields, raises
\* the same, and makes the same git calls but for the value of POCO_GIT_TOKEN;
\* and no file holds the token.
C3_TokenNonInterference ==
    (last.op = "prepare" /\ last.config.git_token # None
        /\ Strip(last.config.git_token) # "") =>
        /\ \A t \in TokenVariants :
              Then(prepare(Ctx(last.pre_fs, last.pre_self),
                           [last.config EXCEPT !.git_token = t], last.nd, environ),
                   LAMBDA other :
                     /\ other.fs = fs
                     /\ other.self = self
                     /\ other.raised = last.raised
                     /\ other.steps = last.steps
                     /\ SameButToken(other.calls, last.calls))
        /\ \A p \in DOMAIN fs : ~Contains(fs[p].content, Strip(last.config.git_token))

\* A run that handed the token to git and wrote the helper script.
C3_TokenHandedToClone ==
    /\ last.op = "prepare"
    /\ \E i \in 1..Len(last.calls) :
          /\ last.calls[i].op = "clone"
          /\ "POCO_GIT_TOKEN" \in DOMAIN last.calls[i].env
          /\ last.calls[i].env["POCO_GIT_TOKEN"] = "tokB"
    /\ self.git_askpass_path # None
    /\ last.pre_self.git_askpass_path = None
    /\ fs[PathOf(self.git_askpass_path)].mode = "0700"

\* Whether a regular file is in the place of ~/.claude.
HomeIsFile(f) ==
    /\ LExists(f, last.pre_self.system_claude_home)
    /\ f[LReal(f, last.pre_self.system_claude_home)].kind = "file"

\* C4: with a non-blank repo_url whose target path exists and is no
\* repository, prepare() raises the conflict error, calls no git operation, and
\* leaves the target path and what is below it as they were.
C4_ConflictRefused ==
    (last.op = "prepare" /\ RepoUrl(last.config) # ""
        /\ Exists(last.pre_fs, Target) /\ ~is_repository(last.pre_fs, Target)) =>
        /\ last.raised = ConflictError
        /\ last.calls = <<>>
        /\ Under(fs, Target) = Under(last.pre_fs, Target)

\* C4 where ~/.claude is not a regular file.
C4_ConflictRefusedUnlessHomeFile ==
    HomeIsFile(last.pre_fs) \/ C4_ConflictRefused

\* The git operations the claim C5 expects in a repository that is there.
ExpectedInRepository ==
    IF ~Truthy(last.config.git_branch) THEN <<>>
    ELSE IF last.nd.fail = "fetch" THEN <<"fetch">>
    ELSE <<"fetch", "checkout">>

\* C5: prepare() calls clone exactly when repo_url is non-blank and the target
\* path does not exist, and then once; with a repository at the target path it
\* fetches and checks out the requested branch (nothing without a branch) and
\* does not clone.
C5_CloneIffMissing ==
    last.op = "prepare" =>
        /\ Cardinality({i \in 1..Len(Ops) : Ops[i] = "clone"}) <= 1
        /\ (\E i \in 1..Len(Ops) : Ops[i] = "clone")
             <=> (RepoUrl(last.config) # "" /\ ~Exists(last.pre_fs, Target))
        /\ (RepoUrl(last.config) # "" /\ Exists(last.pre_fs, Target)
               /\ is_repository(last.pre_fs, Target))
             => Ops = ExpectedInRepository

\* C5 where ~/.claude is not a regular file.
C5_CloneIffMissingUnlessHomeFile ==
    HomeIsFile(last.pre_fs) \/ C5_CloneIffMissing

\* C6: after a successful prepare() with a non-blank repo_url, the origin of
\* the repository at work_path is that URL.
C6_OriginIsRepoUrl ==
    (last.op = "prepare" /\ last.raised = "" /\ RepoUrl(last.config) # "") =>
        /\ is_repository(fs, self.work_path)
        /\ RepoOrigin(fs, self.work_path) = RepoUrl(last.config)

\* C7: after a successful prepare(), work_path is a directory: root_path
\* without a repo_url, <root_path>/demo for the URLs asked for, and then a
\* repository on the requested branch when one was requested.
C7_WorkPath ==
    (last.op = "prepare" /\ last.raised = "") =>
        /\ IsDir(fs, self.work_path)
        /\ self.work_path = IF RepoUrl(last.config) = "" THEN self.root_path
                             ELSE Append(self.root_path, "demo")
        /\ RepoUrl(last.config) # "" =>
              /\ is_repository(fs, self.work_path)
              /\ Truthy(last.config.git_branch) =>
                    RepoHead(fs, self.work_path) = last.config.git_branch

\* A repository found on dev, left on main.
C7_SwitchedToMain ==
    /\ last.op = "prepare" /\ last.raised = ""
    /\ is_repository(last.pre_fs, Demo) /\ RepoHead(last.pre_fs, Demo) = "dev"
    /\ self.work_path = Demo /\ RepoHead(fs, Demo) = "main"

\* C8: prepare() does not fail while linking ~/.claude, whatever was there,
\* and leaves ~/.claude a symbolic link to the persistent directory.
C8_HomeRelinked ==
    last.op = "prepare" =>
        /\ ~(last.raised # "" /\ last.steps = <<"persistence">>)
        /\ IsSymlink(fs, self.system_claude_home)
        /\ fs[LReal(fs, self.system_claude_home)].target = self.persistent_claude_data
        /\ IsDir(fs, self.system_claude_home)

\* Whether a clone, fetch or checkout of the last call failed.
GitFailed ==
    /\ last.nd.fail \in {"clone", "fetch", "checkout"}
    /\ \E i \in 1..Len(Ops) : Ops[i] = last.nd.fail

\* C9: when clone, fetch or checkout fails, or the target path is in the way,
\* prepare() raises, runs neither the inputs step nor the excludes step, and
\* leaves work_path and the inputs directory as they were.
C9_AbortsOnFailure ==
    (last.op = "prepare" /\ (GitFailed \/ "target:other" \in Range(last.steps))) =>
        /\ last.raised \in {ConflictError, CloneError, CheckoutError}
        /\ "inputs" \notin Range(last.steps)
        /\ "excludes" \notin Range(last.steps)
        /\ self.work_path = last.pre_self.work_path
        /\ Under(fs, self.inputs_root) = Under(last.pre_fs, self.inputs_root)

\* A clone that failed after the helper script was written.
C9_CloneFailed ==
    /\ last.op = "prepare" /\ last.raised = CloneError
    /\ self.git_askpass_path # last.pre_self.git_askpass_path
    /\ GitFailed

\* C10: a prepare() run that reaches the excludes step returns normally,
\* with work_path set, whatever the state of .git/info and the exclude file.
C10_ExcludesNeverRaise ==
    (last.op = "prepare" /\ "excludes" \in Range(last.steps)) =>
        /\ last.raised = ""
        /\ self.work_path = IF RepoUrl(last.config) = "" THEN self.root_path ELSE Target

\* Whether link is a symbolic link that names inputs_root.
LinksToInputs(f, link) == IsSymlink(f, link) /\ f[LReal(f, link)].target = self.inputs_root

\* C13, as stated: after a successful prepare(), inputs_root is a directory
\* and, where work_path differs from root_path, work_path/inputs is a
\* symbolic link to inputs_root.
C13_InputsLinked ==
    (last.op = "prepare" /\ last.raised = "") =>
        /\ IsDir(fs, self.inputs_root)
        /\ self.work_path # self.root_path => LinksToInputs(fs, InputsLink(self.work_path))

\* C13, amended: after a successful prepare(), inputs_root is a directory
\* unless something else was in its place, which is left there; and where
\* inputs_root is a directory and work_path differs from root_path, an entry
\* that was at work_path/inputs is left as it was, and otherwise
\* work_path/inputs is a symbolic link to inputs_root.
C13_InputsLinkedIfFree ==
    (last.op = "prepare" /\ last.raised = "") =>
        /\ \/ IsDir(fs, self.inputs_root)
           \/ /\ LExists(last.pre_fs, self.inputs_root)
              /\ ~IsDir(last.pre_fs, self.inputs_root)
              /\ Under(fs, self.inputs_root) = Under(last.pre_fs, self.inputs_root)
        /\ (IsDir(fs, self.inputs_root) /\ self.work_path # self.root_path) =>
              IF LExists(last.pre_fs, InputsLink(self.work_path))
              THEN Under(fs, InputsLink(self.work_path))
                     = Under(last.pre_fs, InputsLink(self.work_path))
              ELSE LinksToInputs(fs, InputsLink(self.work_path))

\* A successful prepare() on a repository that has a directory "inputs" of
\* its own, which stays.
C13_OwnInputsKept ==
    /\ last.op = "prepare" /\ last.raised = ""
    /\ self.work_path = Demo
    /\ IsDir(fs, self.inputs_root)
    /\ InputsLink(Demo) \in DOMAIN last.pre_fs
    /\ fs[InputsLink(Demo)] = DirNode

\* C15: prepare() and cleanup() leave persistent_claude_data and all in it
\* as it was (prepare() makes the directory where it is missing); cleanup()
\* removes nothing but the symbolic link at system_claude_home and the
\* helper script; a successful prepare() leaves system_claude_home a symbolic
\* link to the directory.
C15_DataKept ==
    last.op \in {"prepare", "cleanup"} =>
        /\ Under(fs, self.persistent_claude_data) =
              IF LExists(last.pre_fs, self.persistent_claude_data) \/ "persistence" \notin Range(last.steps)
              THEN Under(last.pre_fs, self.persistent_claude_data)
              ELSE (self.persistent_claude_data :> DirNode)
        /\ last.op = "cleanup" =>
              /\ \A q \in DOMAIN fs : q \in DOMAIN last.pre_fs /\ fs[q] = last.pre_fs[q]
              /\ \A q \in DOMAIN last.pre_fs \ DOMAIN fs :
                    \/ q = self.system_claude_home /\ last.pre_fs[q].kind = "symlink"
                    \/ last.pre_self.git_askpass_path # None
                       /\ q = PathOf(last.pre_self.git_askpass_path)
        /\ (last.op = "prepare" /\ last.raised = "") =>
              /\ fs[self.system_claude_home] = LinkNode(self.persistent_claude_data)
              /\ fs[self.persistent_claude_data].kind = "dir"

\* A prepare() that re-links the home, after a cleanup(), to the directory an
\* earlier session left with its history in it.
C15_RelinkedAfterCleanup ==
    /\ last.op = "prepare" /\ last.raised = "" /\ nops = 2
    /\ self.system_claude_home \notin DOMAIN last.pre_fs
    /\ Append(self.persistent_claude_data, "history") \in DOMAIN fs
    /\ fs[Append(self.persistent_claude_data, "history")] = FileNode("h", "0644")
    /\ IsDir(fs, self.system_claude_home)

\* C16: cleanup() returns normally, whether or not the operating system
\* lets it remove the link at system_claude_home and the helper script.
C16_CleanupNeverRaises == last.op = "cleanup" => last.raised = ""

\* The same for the helper script alone: cleanup() returns normally where
\* system_claude_home was no symbolic link, and forgets the script.
C16_ScriptFailureSwallowed ==
    (last.op = "cleanup" /\ ~IsSymlink(last.pre_fs, self.system_claude_home)) =>
        last.raised = "" /\ self.git_askpass_path = None

\* Whether cleanup() has nothing to do in the state f, slf.
Clean(f, slf) == ~IsSymlink(f, slf.system_claude_home) /\ slf.git_askpass_path = None

\* The claim of C17 for the last call.
CleanupIdempotent ==
    /\ last.raised = ""
    /\ Clean(fs, self)
    /\ Clean(last.pre_fs, last.pre_self) => (fs = last.pre_fs /\ self = last.pre_self)

\* C17: every cleanup(), be it the first call on the manager, a call after
\* prepare() or a call after another cleanup(), returns normally and leaves
\* a clean state; on a clean state it changes neither the filesystem nor
\* the manager.
C17_CleanupIdempotent == last.op = "cleanup" => CleanupIdempotent

\* The same where the operating system refuses no unlink.
C17_CleanupIdempotentUnlessRefused ==
    (last.op = "cleanup" /\ last.nd.fail = "none") => CleanupIdempotent

\* C19: with repo_url absent or blank, prepare() calls no clone, fetch or
\* checkout; calls init_repository(root_path), once, exactly when root_path
\* is no repository; sets work_path to root_path; and where init_repository
\* fails, goes on with the inputs and the excludes step and returns normally.
C19_NoRepoMode ==
    (last.op = "prepare" /\ RepoUrl(last.config) = "") =>
        /\ Range(Ops) \subseteq {"init"}
        /\ Len(Ops) = IF is_repository(last.pre_fs, self.root_path) THEN 0 ELSE 1
        /\ \A i \in 1..Len(last.calls) : last.calls[i].path = self.root_path
        /\ self.work_path = self.root_path
        /\ last.nd.fail = "init" =>
              /\ last.raised = ""
              /\ "inputs" \in Range(last.steps) /\ "excludes" \in Range(last.steps)

\* C19 where ~/.claude is not a regular file.
C19_NoRepoModeUnlessHomeFile ==
    HomeIsFile(last.pre_fs) \/ C19_NoRepoMode

\* The helper scripts on disk: the manager alone writes to the temporary
\* directory.
Scripts(f) == {q \in DOMAIN f : Len(q) = Len(TmpDir) + 1 /\ Parent(q) = TmpDir}

\* C21, as stated: after cleanup() has returned, system_claude_home is no
\* symbolic link, no helper script of the manager is on disk, and all at and
\* below root_path is as it was.
C21_NothingLeft ==
    (last.op = "cleanup" /\ last.raised = "") =>
        /\ ~IsSymlink(fs, self.system_claude_home)
        /\ Scripts(fs) = {}
        /\ Under(fs, self.root_path) = Under(last.pre_fs, self.root_path)

\* C21, amended: after cleanup() has returned, system_claude_home is no
\* symbolic link, the manager tracks no helper script, the script it tracked
\* is gone unless its removal was refused, and all at and below root_path is
\* as it was.
C21_NothingTracked ==
    (last.op = "cleanup" /\ last.raised = "") =>
        /\ ~IsSymlink(fs, self.system_claude_home)
        /\ self.git_askpass_path = None
        /\ (last.pre_self.git_askpass_path # None /\ last.nd.fail # "unlink") =>
              PathOf(last.pre_self.git_askpass_path) \notin Scripts(fs)
        /\ Scripts(fs) \subseteq Scripts(last.pre_fs)
        /\ Under(fs, self.root_path) = Under(last.pre_fs, self.root_path)

\* A cleanup() after a prepare() that wrote the helper script and then failed
\* to clone.
C21_CleanedAfterFailedClone ==
    /\ last.op = "cleanup" /\ last.raised = "" /\ last.nd.fail = "none" /\ nops = 2
    /\ last.pre_self.git_askpass_path # None
    /\ PathOf(last.pre_self.git_askpass_path) \in Scripts(last.pre_fs)
    /\ Scripts(fs) = {}
    /\ IsSymlink(last.pre_fs, self.system_claude_home)
    /\ self.persistent_claude_data \in DOMAIN fs
    /\ Append(self.persistent_claude_data, "history") \notin DOMAIN fs
    /\ Demo \notin DOMAIN fs

\* The four steps of prepare() among the steps of the last call, in the order
\* they were entered.
TopSteps ==
    SelectSeq(last.steps,
              LAMBDA x : x \in {"persistence", "repository", "excludes", "inputs"})

\* C23, as stated: a prepare() run enters its steps in the order persistence
\* linking, repository resolution, exclude-file maintenance, inputs-directory
\* linking, each at most once and each after the one before it has returned.
C23_ExcludesBeforeInputs ==
    last.op = "prepare" =>
        IsPrefix(TopSteps, <<"persistence", "repository", "excludes", "inputs">>)

\* C23, amended: a prepare() run enters its steps in the order persistence
\* linking, repository resolution, inputs-directory linking, exclude-file
\* maintenance, each at most once and each after the one before it has
\* returned; a run that enters fewer than four has raised in the last one.
C23_InputsBeforeExcludes ==
    last.op = "prepare" =>
        /\ IsPrefix(TopSteps, <<"persistence", "repository", "inputs", "excludes">>)
        /\ Len(TopSteps) < 4 => last.raised # ""

\* A prepare() that went through all four steps, linked the inputs directory
\* into the clone and wrote the exclude file.
C23_AllFourSteps ==
    /\ last.op = "prepare" /\ last.raised = "" /\ Len(TopSteps) = 4
    /\ IsSymlink(fs, Append(self.work_path, "inputs"))
    /\ ~IsSymlink(last.pre_fs, Append(self.work_path, "inputs"))
    /\ self.work_path \o <<".git", "info", "exclude">> \in DOMAIN fs
    /\ self.work_path \o <<".git", "info", "exclude">> \notin DOMAIN last.pre_fs

\* The token prepare() hands on: None when absent or blank.
TokenOf(config) ==
    IF Strip(OrEmpty(config.git_token)) # "" THEN Strip(OrEmpty(config.git_token)) ELSE None

\* The environment _build_git_env makes for the last call's URL and token.
ScopedEnv ==
    build_git_env(Ctx(last.pre_fs, last.pre_self), RepoUrl(last.config),
                  TokenOf(last.config), last.nd).ret

\* C24: in a prepare() for a URL whose target path holds a repository already,
\* no git operation is invoked when no branch is requested (None or ""); when
\* one is requested, the first operation is the fetch of that branch from the
\* repository's origin, in the target path, with the environment made for the
\* URL and the token, the only other one is the checkout of that branch, made
\* after the fetch has returned, and none is made after a fetch that failed.
C24_FetchBeforeCheckout ==
    (/\ last.op = "prepare" /\ RepoUrl(last.config) # ""
     /\ TargetState(last.pre_fs, Target) = "target:repository"
     /\ "resolve" \in Range(last.steps)) =>
        IF ~Truthy(last.config.git_branch) THEN Ops = <<>>
        ELSE /\ Ops \in {<<"fetch">>, <<"fetch", "checkout">>}
             /\ last.calls[1] = Call("fetch", RepoOrigin(last.pre_fs, Target), Target,
                                     last.config.git_branch, ScopedEnv)
             /\ Len(Ops) = 2 <=> last.nd.fail # "fetch"
             /\ Len(Ops) = 2 =>
                   last.calls[2] = Call("checkout", "", Target, last.config.git_branch, NoEnv)
             /\ last.nd.fail \in {"fetch", "checkout"} <=> last.raised = CheckoutError

\* A prepare() for a branch of a repository that is there, whose fetch fails:
\* the token went to the fetch and nothing was checked out.
C24_FetchFailed ==
    /\ last.op = "prepare" /\ RepoUrl(last.config) # ""
    /\ TargetState(last.pre_fs, Target) = "target:repository"
    /\ Truthy(last.config.git_branch) /\ last.nd.fail = "fetch"
    /\ Ops = <<"fetch">>
    /\ "POCO_GIT_TOKEN" \in DOMAIN last.calls[1].env
    /\ RepoHead(fs, Target) # last.config.git_branch

-----------------------------------------------------------------------------
(* _ensure_git_excludes and _ensure_inputs_dir on their own (SpecParts) *)

\* C11: a call of ensure_git_excludes that repeats the call right before it
\* (same repository, same WORKSPACE_GIT_IGNORE) leaves the exclude file, and
\* all of .git/info, exactly as the first call left it.
C11_SecondCallSameFile ==
    (last.op = "ensure_git_excludes" /\ last.again) =>
        /\ Under(fs, ExcludeFile(last.arg)) = Under(last.pre_fs, ExcludeFile(last.arg))
        /\ Under(fs, InfoDir(last.arg)) = Under(last.pre_fs, InfoDir(last.arg))

\* A second call on a hand-written file the first call has rewritten and
\* extended with the built-in patterns and the operator's.
C11_SecondCallAfterAppend ==
    /\ last.op = "ensure_git_excludes" /\ last.again /\ last.arg = Root
    /\ environ.WORKSPACE_GIT_IGNORE # ""
    /\ IsFile(fs, ExcludeFile(Root))
    /\ StartsWith(fs[ExcludeFile(Root)].content, "# local\n.venv/\n  dist/  \n.git/\n")
    /\ EndsWith(fs[ExcludeFile(Root)].content, "*.log\n")

\* The lines of the exclude file of the repository at p, as line 242 reads
\* them; none where the file is missing or unreadable.
ExcludeLines(f, p) ==
    IF Exists(f, ExcludeFile(p)) /\ ReadText(f, ExcludeFile(p)).ok
    THEN Stripped(SplitLines(ReadText(f, ExcludeFile(p)).text))
    ELSE <<>>

\* On how many of the lines x stands.
CountOf(lines, x) == Cardinality({i \in 1..Len(lines) : lines[i] = x})

\* The candidate patterns of the last call.
Candidates == ExcludePatterns(environ.WORKSPACE_GIT_IGNORE)

\* The claim of C12 for the candidate pattern x.
AppendedAtMostOnce(x) ==
    IF CountOf(ExcludeLines(last.pre_fs, last.arg), x) > 0
    THEN CountOf(ExcludeLines(fs, last.arg), x) = CountOf(ExcludeLines(last.pre_fs, last.arg), x)
    ELSE CountOf(ExcludeLines(fs, last.arg), x) <= 1

\* C12: after ensure_git_excludes, a candidate pattern that was a line of the
\* file stands on as many lines as before, and one that was missing stands
\* on one line at most, whatever WORKSPACE_GIT_IGNORE repeats.
C12_AppendedAtMostOnce ==
    last.op = "ensure_git_excludes" => \A x \in Range(Candidates) : AppendedAtMostOnce(x)

\* The same for the candidate patterns that WORKSPACE_GIT_IGNORE and the
\* built-in list name once between them.
C12_AppendedAtMostOnceIfNamedOnce ==
    last.op = "ensure_git_excludes" =>
        \A x \in Range(Candidates) : CountOf(Candidates, x) = 1 => AppendedAtMostOnce(x)

\* C14: ensure_inputs_dir never raises, leaves an entry that is at
\* repo_path/inputs (file, directory, symbolic link, dangling or not) and
\* all below it as it was, and a call that repeats the call right before it
\* changes nothing.
C14_InputsEntryKept ==
    last.op = "ensure_inputs_dir" =>
        /\ last.raised = ""
        /\ LExists(last.pre_fs, InputsLink(last.arg)) =>
              Under(fs, InputsLink(last.arg)) = Under(last.pre_fs, InputsLink(last.arg))
        /\ last.again => fs = last.pre_fs

\* A second call in a repository whose "inputs" is a dangling symbolic link,
\* after the first has made inputs_root.
C14_DanglingLinkKept ==
    /\ last.op = "ensure_inputs_dir" /\ last.again /\ last.arg = Demo
    /\ IsSymlink(fs, InputsLink(Demo)) /\ fs[InputsLink(Demo)] = LinkNode(Gone)
    /\ ~Exists(fs, InputsLink(Demo))
    /\ IsDir(fs, self.inputs_root) /\ ~IsSymlink(fs, self.inputs_root)

\* What the exclude file of the repository at p holds, byte for byte; "" when
\* there is no such file.
ExcludeBytes(f, p) ==
    IF IsFile(f, ExcludeFile(p)) THEN f[Real(f, ExcludeFile(p))].content ELSE ""

\* The previous content, closed by a newline when it has none at its end.
PreviousClosed ==
    LET old == ExcludeBytes(last.pre_fs, last.arg)
    IN  IF old = "" \/ EndsWith(old, "\n") THEN old ELSE old \o "\n"

\* What stands after the first n characters of the exclude file.
AppendedLines(n) ==
    SplitLines(SubSeq(ExcludeBytes(fs, last.arg), n + 1, Len(ExcludeBytes(fs, last.arg))))

\* The claim of C26 for the last call of ensure_git_excludes.
OnlyAppends ==
    IF ExcludeBytes(fs, last.arg) = ExcludeBytes(last.pre_fs, last.arg)
    THEN Under(fs, ExcludeFile(last.arg)) = Under(last.pre_fs, ExcludeFile(last.arg))
    ELSE /\ StartsWith(ExcludeBytes(fs, last.arg), PreviousClosed)
         /\ Range(AppendedLines(Len(PreviousClosed))) \subseteq Range(Candidates)
         /\ \E x \in Range(Candidates) : x \notin Range(ExcludeLines(last.pre_fs, last.arg))

\* C26: ensure_git_excludes only appends: when the exclude file differs after
\* the call, its previous content, closed by a newline, is the beginning of
\* the new content and each line after it is a candidate pattern; the file
\* differs only when a candidate pattern was missing.
C26_OnlyAppends == last.op = "ensure_git_excludes" => OnlyAppends

\* The same for the exclude files that hold no carriage return.
C26_OnlyAppendsUnlessCarriageReturn ==
    (last.op = "ensure_git_excludes"
     /\ Find(ExcludeBytes(last.pre_fs, last.arg), "\r") = 0) => OnlyAppends

-----------------------------------------------------------------------------
(* _derive_repo_path on its own (SpecPath) *)

\* C18: derive_repo_path returns root_path with one more segment, which is
\* not empty, holds no "/" and is neither "." nor ".."; the path is a
\* function of the URL.
C18_ChildOfRoot ==
    last.op = "derive_repo_path" =>
        /\ Len(last.ret) = Len(self.root_path) + 1
        /\ Parent(last.ret) = self.root_path
        /\ Name(last.ret) # ""
        /\ Find(Name(last.ret), "/") = 0
        /\ Name(last.ret) \notin {".", ".."}
        /\ last.ret = derive_repo_path(last.pre_self, last.arg)
        /\ last.again => last.ret = last.pre_ret

\* A URL whose last segment is "..git", for which "repo" stands in.
C18_DotDotGitFallsBack ==
    /\ last.op = "derive_repo_path"
    /\ last.arg = "https://github.com/acme/..git/?q#f"
    /\ last.ret = Append(self.root_path, "repo")

\* The paths under root_path that the manager keeps for itself.
ReservedPaths(slf) == {slf.inputs_root, slf.persistent_claude_data, slf.claude_config_path}

\* C27: the path derive_repo_path returns is none of inputs_root,
\* persistent_claude_data and claude_config_path, whatever the URL.
C27_NotReserved ==
    last.op = "derive_repo_path" => last.ret \notin ReservedPaths(self)

\* The same for the URLs whose last segment, its ".git" cut off, is none of
\* "inputs", ".claude_data" and ".claude".
C27_NotReservedUnlessNamedSo ==
    (last.op = "derive_repo_path"
     /\ Name(last.ret) \notin {"inputs", ".claude_data", ".claude"}) =>
        last.ret \notin ReservedPaths(self)

-----------------------------------------------------------------------------
(* Two managers with different root_path (SpecTwo) *)

\* Whether ~/.claude is a symbolic link to the data directory of manager m.
LinkedTo(m) ==
    /\ IsSymlink(fs, self[m].system_claude_home)
    /\ fs[self[m].system_claude_home] = LinkNode(self[m].persistent_claude_data)

\* C20: from a successful prepare() of a manager to its cleanup(),
\* system_claude_home is a symbolic link to that manager's
\* persistent_claude_data, whatever the other manager is called to do.
C20_LinkHeld == \A m \in last.held : LinkedTo(m)

\* The same as long as no other manager has been called.
C20_LinkHeldWhileAlone == \A m \in last.held : last.acted = {m} => LinkedTo(m)

-----------------------------------------------------------------------------
(* The helper script over a manager's lifetime (SpecLife) *)

\* Whether the last call has put the token into a git environment.
Injects ==
    IF last.op = "build_git_env" THEN "POCO_GIT_TOKEN" \in DOMAIN last.ret
    ELSE /\ last.op = "prepare"
         /\ "resolve" \in Range(last.steps)
         /\ Strip(OrEmpty(last.config.git_token)) # ""
         /\ TokenAllowed(RepoUrl(last.config))

\* The helper scripts the last call has written.
Written == Scripts(fs) \ Scripts(last.pre_fs)

\* C22, as stated: a manager writes one helper script at most in its
\* lifetime, only in a call that injects the token, and every later call
\* that injects the token uses the path of that script.
C22_OneScriptEver ==
    /\ last.created <= 1
    /\ Written # {} => Injects
    /\ (Injects /\ last.created >= 1) => Cardinality(Scripts(fs)) = 1

\* C22, amended: between two cleanup() calls a manager writes one helper
\* script at most, only in a call that injects the token and finds no
\* script of the manager's; a call that injects the token and finds the
\* manager's script uses it and writes none; after a call that injects the
\* token the manager has a script on disk.
C22_OneScriptPerSession ==
    /\ last.since <= 1
    /\ Cardinality(Written) <= 1
    /\ Written # {} =>
          /\ Injects
          /\ \/ last.pre_self.git_askpass_path = None
             \/ ~Exists(last.pre_fs, PathOf(last.pre_self.git_askpass_path))
    /\ (Injects /\ last.pre_self.git_askpass_path # None
          /\ Exists(last.pre_fs, PathOf(last.pre_self.git_askpass_path))) =>
          /\ self.git_askpass_path = last.pre_self.git_askpass_path
          /\ Written = {}
    /\ Injects =>
          /\ self.git_askpass_path # None
          /\ IsFile(fs, PathOf(self.git_askpass_path))

\* A second script written in the third call, after a cleanup().
C22_SecondScriptAfterCleanup ==
    /\ nops = 3 /\ last.created = 2 /\ last.since = 1
    /\ Injects /\ Written # {}
    /\ Cardinality(Scripts(fs)) = 1

-----------------------------------------------------------------------------
(* The errors of failed git operations (SpecFail) *)

\* The message of the last call's runtime error up to its detail.
Heading ==
    IF last.raised = CloneError THEN CloneMessage(RepoUrl(last.config), "")
    ELSE CheckoutMessage(last.config.git_branch, Target, "")

\* The detail: what follows the heading.
DetailPart == SubSeq(last.text, Len(Heading) + 1, Len(last.text))

\* C25: a prepare() whose clone, fetch or checkout fails raises one
\* RuntimeError, of the clone for a clone and of the checkout for a fetch or a
\* checkout, whose message names the URL, or the branch and the target path,
\* and ends with the detail: the text of the error when that has at most 2000
\* characters, else its first 2000 characters and one ellipsis character; the
\* detail has at most 2001 characters.
C25_DetailBounded ==
    last.op = "prepare" =>
        /\ last.nd.fail \in Range(Ops) \cap {"clone", "fetch", "checkout"} =>
              last.raised = IF last.nd.fail = "clone" THEN CloneError ELSE CheckoutError
        /\ last.raised \in {CloneError, CheckoutError} =>
              /\ StartsWith(last.text, Heading)
              /\ DetailPart = IF Len(last.nd.text) <= 2000 THEN last.nd.text
                              ELSE SubSeq(last.nd.text, 1, 2000) \o Ellipsis
              /\ Len(DetailPart) <= 2001

\* A fetch that failed with an error text of 2001 characters, of which the
\* last is cut and the ellipsis put in its place.
C25_LongDetailCut ==
    /\ last.op = "prepare" /\ last.nd.fail = "fetch" /\ last.raised = CheckoutError
    /\ Len(last.nd.text) = 2001
    /\ Len(DetailPart) = 2001
    /\ DetailPart # last.nd.text
    /\ SubSeq(DetailPart, 1, 2000) = SubSeq(last.nd.text, 1, 2000)

=============================================================================
